---- MODULE Spec2Model ----
(***************************************************************************)
(* Model of bentoml.monitoring.arize: ArizeMonitor and the helpers that    *)
(* classify the logged columns, infer the Arize mapping and convert one    *)
(* record into the fields of an Arize row.                                 *)
(*                                                                         *)
(* Values are opaque to the code, so a logged value is represented by the  *)
(* ordinal n of the log call that stores it (1, 2, ...), a request id by   *)
(* 100 + n and a timestamp, in tenths of a second so that int(timestamp)   *)
(* is not the identity, by 10000 + 10 * n + 5.                             *)
(***************************************************************************)
EXTENDS Integers, Sequences, FiniteSets, TLC

\* ------------------------------------------------------------------ bounds
MaxLogs == 2
MaxBatch == 2

\* ------------------------------------------------------- program constants
None == "None"
COLUMN_TIME == "timestamp"
COLUMN_RID == "request_id"
PRESERVED_COLUMNS == {COLUMN_TIME, COLUMN_RID}
BENTOML_MONITOR_ROLES == {"feature", "prediction", "target"}
BENTOML_MONITOR_TYPES == {"numerical", "categorical", "numerical_sequence"}

\* Mapping enum members used by the module.
SCORED_CLASSIFICATION == "SCORED_CLASSIFICATION"
CLASSIFICATION == "CLASSIFICATION"
REGRESSION == "REGRESSION"
Unset == "unset"

\* arize ModelTypes members; RANKING stands for every member other than the two
\* the module handles.
SCORE_CATEGORICAL == "SCORE_CATEGORICAL"
NUMERIC == "NUMERIC"
RANKING == "RANKING"
PRODUCTION == "PRODUCTION"

\* ------------------------------------------------------------ input sets
\* The (name, role, type) triples a caller passes to log: a feature, the
\* prediction label and score, a second prediction label (an ambiguous
\* bucket), a target label, and the calls log must reject. log_batch is
\* called with BatchCalls, a subset of them.
Col(n, r, t) == [name |-> n, role |-> r, type |-> t]
ValidCalls ==
    { Col("age", "feature", "numerical"),
      Col("pred_label", "prediction", "categorical"),
      Col("pred_label2", "prediction", "categorical"),
      Col("pred_score", "prediction", "numerical"),
      Col("label", "target", "categorical") }
RejectedCalls ==
    { Col(COLUMN_TIME, "feature", "numerical"),
      Col(COLUMN_RID, "prediction", "categorical"),
      Col("age", "label", "numerical"),
      Col("age", "feature", "text") }
LogCalls == ValidCalls \cup RejectedCalls
BatchCalls ==
    { Col("age", "feature", "numerical"),
      Col("pred_label", "prediction", "categorical"),
      Col(COLUMN_RID, "prediction", "categorical") }

\* datetime.now().timestamp() in tenths of a second: the clock reads a later,
\* fractional time at each log call (n is the ordinal of the call).
clock(n) == 10000 + 10 * n + 5
\* trace_context.request_id: None outside a request (NoRequestId), else the
\* integer id of the request the n-th log call runs in.
NoRequestId == -1
RequestIds(n) == {NoRequestId, 100 + n}
\* model_type and (model_id, model_version) given to __init__; environment
\* and model_tags are left at their default, None.
ModelTypeArgs == {None, SCORE_CATEGORICAL, NUMERIC, RANKING}
ModelArgs == { <<None, None>>, <<None, "v1">> }

\* ------------------------------------------------------------------ state
VARIABLES
    model_type, model_id, model_version, environment,
    is_first_record, is_first_column, schema, columns,
    data_converter, client,
    n_log, closed, record_state,
    op, raised, warned, forwarded

vars == << model_type, model_id, model_version, environment,
           is_first_record, is_first_column, schema, columns,
           data_converter, client,
           n_log, closed, record_state,
           op, raised, warned, forwarded >>

\* --------------------------------------------------------- _FieldStats
FieldStats == [ prediction_label_columns |-> << >>,
                prediction_score_columns |-> << >>,
                actual_label_columns |-> << >>,
                actual_score_columns |-> << >>,
                feature_columns |-> << >>,
                embedding_feature_columns |-> << >> ]

\* The attrs class defines six list fields and nothing named is_filled.
FieldStatsAttributes ==
    { "prediction_label_columns", "prediction_score_columns",
      "actual_label_columns", "actual_score_columns",
      "feature_columns", "embedding_feature_columns" }

Warn(kind, cols) == [kind |-> kind, cols |-> cols]

\* The routing with the target side's label and score buckets exchanged.
bucket_mut_swapped(column) ==
    IF column.role = "feature"
    THEN IF column.type = "numerical_sequence"
         THEN "embedding_feature_columns" ELSE "feature_columns"
    ELSE IF column.type = "categorical" /\ column.role = "prediction"
    THEN "prediction_label_columns"
    ELSE IF column.type = "numerical" /\ column.role = "prediction"
    THEN "prediction_score_columns"
    ELSE IF column.type = "categorical" /\ column.role = "target"
    THEN "actual_score_columns"
    ELSE IF column.type = "numerical" /\ column.role = "target"
    THEN "actual_label_columns"
    ELSE "dropped"

\* Bucket a column is appended to, or "dropped".
bucket(column) ==
    IF column.role = "feature"
    THEN IF column.type = "numerical_sequence"
         THEN "embedding_feature_columns" ELSE "feature_columns"
    ELSE IF column.type = "categorical" /\ column.role = "prediction"
    THEN "prediction_label_columns"
    ELSE IF column.type = "numerical" /\ column.role = "prediction"
    THEN "prediction_score_columns"
    ELSE IF column.type = "categorical" /\ column.role = "target"
    THEN "actual_label_columns"
    ELSE IF column.type = "numerical" /\ column.role = "target"
    THEN "actual_score_columns"
    ELSE "dropped"

RECURSIVE stat_fields(_)
stat_fields(s) ==
    IF s = << >> THEN FieldStats
    ELSE LET fields == stat_fields(SubSeq(s, 1, Len(s) - 1))
             column == s[Len(s)]
             b == bucket(column)
         IN  IF b = "dropped" THEN fields
             ELSE [fields EXCEPT ![b] = Append(@, column.name)]

\* The warnings _stat_fields logs, one per dropped column, in schema order.
RECURSIVE stat_fields_warnings(_)
stat_fields_warnings(s) ==
    IF s = << >> THEN << >>
    ELSE LET column == s[Len(s)]
             before == stat_fields_warnings(SubSeq(s, 1, Len(s) - 1))
         IN  IF bucket(column) = "dropped"
             THEN Append(before, Warn("unsupported_column", <<column.name>>))
             ELSE before

Tail1(cols) == SubSeq(cols, 2, Len(cols))
ExtraWarning(kind, cols, warn) ==
    IF warn /\ Len(cols) > 1 THEN << Warn(kind, Tail1(cols)) >> ELSE << >>

\* Each _is_valid_*_form returns [raised, valid, warned].
Form(r, v, w) == [raised |-> r, valid |-> v, warned |-> w]

is_valid_classification_form(fields, warn) ==
    IF fields.prediction_label_columns # << >> /\ fields.prediction_score_columns = << >>
    THEN Form("none", TRUE,
              ExtraWarning("single_prediction_label", fields.prediction_label_columns, warn))
    ELSE IF fields.actual_label_columns # << >> /\ fields.actual_score_columns = << >>
    THEN Form("none", TRUE,
              ExtraWarning("single_actual_label", fields.actual_label_columns, warn))
    ELSE Form("none", FALSE, << >>)

is_valid_scored_classification_form(fields, warn) ==
    IF fields.prediction_label_columns # << >> /\ fields.prediction_score_columns # << >>
    THEN Form("none", TRUE,
              ExtraWarning("single_prediction_label", fields.prediction_label_columns, warn)
              \o ExtraWarning("single_prediction_score", fields.prediction_score_columns, warn))
    ELSE IF fields.actual_label_columns # << >> /\ fields.actual_score_columns # << >>
    THEN Form("none", TRUE,
              ExtraWarning("single_actual_label", fields.actual_label_columns, warn)
              \o ExtraWarning("single_actual_score", fields.actual_score_columns, warn))
    ELSE Form("none", FALSE, << >>)

\* `assert fields.is_filled` reads an attribute _FieldStats does not have.
is_valid_regression_form(fields, warn) ==
    IF "is_filled" \notin FieldStatsAttributes
    THEN Form("AttributeError:is_filled", FALSE, << >>)
    ELSE IF fields.prediction_score_columns # << >> /\ fields.prediction_label_columns = << >>
    THEN Form("none", TRUE,
              ExtraWarning("single_prediction_score", fields.prediction_score_columns, warn))
    ELSE IF fields.actual_score_columns # << >> /\ fields.actual_label_columns = << >>
    THEN Form("none", TRUE,
              ExtraWarning("single_actual_score", fields.actual_score_columns, warn))
    ELSE Form("none", FALSE, << >>)

\* _infer_mapping returns [raised, mapping, warned].
Inferred(r, m, w) == [raised |-> r, mapping |-> m, warned |-> w]

infer_mapping(fields, mtype) ==
    IF mtype = None
    THEN LET sc == is_valid_scored_classification_form(fields, FALSE)
             cl == is_valid_classification_form(fields, FALSE)
             rg == is_valid_regression_form(fields, FALSE)
         IN  IF sc.valid THEN Inferred("none", SCORED_CLASSIFICATION, << >>)
             ELSE IF cl.valid THEN Inferred("none", CLASSIFICATION, << >>)
             ELSE IF rg.raised # "none" THEN Inferred(rg.raised, Unset, << >>)
             ELSE IF rg.valid THEN Inferred("none", REGRESSION, << >>)
             ELSE Inferred("ValueError:no_valid_mapping", Unset, << >>)
    ELSE IF mtype = SCORE_CATEGORICAL
    THEN LET sc == is_valid_scored_classification_form(fields, TRUE)
             cl == is_valid_classification_form(fields, TRUE)
         IN  IF sc.valid THEN Inferred("none", SCORED_CLASSIFICATION, sc.warned)
             ELSE IF cl.valid THEN Inferred("none", CLASSIFICATION, cl.warned)
             ELSE Inferred("ValueError:not_classification", Unset, << >>)
    ELSE IF mtype = NUMERIC
    THEN LET rg == is_valid_regression_form(fields, TRUE)
         IN  IF rg.raised # "none" THEN Inferred(rg.raised, Unset, << >>)
             ELSE IF rg.valid THEN Inferred("none", REGRESSION, rg.warned)
             ELSE Inferred("ValueError:not_regression", Unset, << >>)
    ELSE Inferred("none", REGRESSION, << Warn("unsupported_model_type", << >>) >>)

mapping_to_model_type(mapping) ==
    IF mapping = REGRESSION THEN NUMERIC ELSE SCORE_CATEGORICAL

\* --------------------------------------------------------------- _map_data
Range(seq) == { seq[i] : i \in DOMAIN seq }
Min(S) == CHOOSE x \in S : \A y \in S : x <= y

\* The first subscript that fails while the label expressions are evaluated
\* left to right: list[0] on an empty list is an IndexError, record[name] on
\* a missing key a KeyError.
first_error(lists, record) ==
    LET bad == { i \in DOMAIN lists :
                    lists[i] = << >> \/ lists[i][1] \notin DOMAIN record }
    IN  IF bad = {} THEN "none"
        ELSE IF lists[Min(bad)] = << >> THEN "IndexError" ELSE "KeyError"

Embedding(v) == [vector |-> v]

\* The lists with the regression mapping preferring the label column.
label_lists_mut_label_first(fields, mapping) ==
    IF mapping = SCORED_CLASSIFICATION
    THEN << fields.prediction_label_columns, fields.prediction_score_columns,
            fields.actual_label_columns, fields.actual_score_columns >>
    ELSE IF mapping = CLASSIFICATION
    THEN << fields.prediction_label_columns, fields.actual_label_columns >>
    ELSE IF mapping = REGRESSION
    THEN << fields.prediction_label_columns \o fields.prediction_score_columns,
            fields.actual_label_columns \o fields.actual_score_columns >>
    ELSE << fields.prediction_score_columns, fields.actual_score_columns >>

\* The column lists subscripted with [0], in evaluation order, per mapping;
\* the last branch is the fallback for a mapping that is none of the three.
label_lists(fields, mapping) ==
    IF mapping = SCORED_CLASSIFICATION
    THEN << fields.prediction_label_columns, fields.prediction_score_columns,
            fields.actual_label_columns, fields.actual_score_columns >>
    ELSE IF mapping = CLASSIFICATION
    THEN << fields.prediction_label_columns, fields.actual_label_columns >>
    ELSE IF mapping = REGRESSION
    THEN << fields.prediction_score_columns \o fields.prediction_label_columns,
            fields.actual_score_columns \o fields.actual_label_columns >>
    ELSE << fields.prediction_score_columns, fields.actual_score_columns >>

\* _map_data with the actual pair of a scored classification taking its score
\* from the prediction side.
map_data_mut_cross_side(record, fields, mapping) ==
    LET lists == label_lists(fields, mapping)
        err == first_error(lists, record)
        feats == Range(fields.feature_columns)
        embs == Range(fields.embedding_feature_columns)
        failed(e) == [raised |-> e, prediction_label |-> None, actual_label |-> None,
                      features |-> << >>, embedding_features |-> << >>]
    IN  IF err # "none" THEN failed(err)
        ELSE IF ~ (feats \cup embs \subseteq DOMAIN record) THEN failed("KeyError")
        ELSE [ raised |-> "none",
               prediction_label |->
                   IF mapping = SCORED_CLASSIFICATION
                   THEN << record[lists[1][1]], record[lists[2][1]] >>
                   ELSE record[lists[1][1]],
               actual_label |->
                   IF mapping = SCORED_CLASSIFICATION
                   THEN << record[lists[3][1]], record[lists[2][1]] >>
                   ELSE record[lists[2][1]],
               features |-> [c \in feats |-> record[c]],
               embedding_features |-> [c \in embs |-> Embedding(record[c])] ]

\* _map_data returns [raised, prediction_label, actual_label, features,
\* embedding_features]; the labels are pairs under SCORED_CLASSIFICATION.
map_data(record, fields, mapping) ==
    LET lists == label_lists(fields, mapping)
        err == first_error(lists, record)
        feats == Range(fields.feature_columns)
        embs == Range(fields.embedding_feature_columns)
        failed(e) == [raised |-> e, prediction_label |-> None, actual_label |-> None,
                      features |-> << >>, embedding_features |-> << >>]
    IN  IF err # "none" THEN failed(err)
        ELSE IF ~ (feats \cup embs \subseteq DOMAIN record) THEN failed("KeyError")
        ELSE [ raised |-> "none",
               prediction_label |->
                   IF mapping = SCORED_CLASSIFICATION
                   THEN << record[lists[1][1]], record[lists[2][1]] >>
                   ELSE record[lists[1][1]],
               actual_label |->
                   IF mapping = SCORED_CLASSIFICATION
                   THEN << record[lists[3][1]], record[lists[4][1]] >>
                   ELSE record[lists[2][1]],
               features |-> [c \in feats |-> record[c]],
               embedding_features |-> [c \in embs |-> Embedding(record[c])] ]

\* ------------------------------------------------- self._columns (defaultdict)
\* An insertion-ordered dict of deques: a sequence of [k, q].
Keys(cols) == { cols[i].k : i \in DOMAIN cols }
Queue(cols, k) == cols[CHOOSE i \in DOMAIN cols : cols[i].k = k].q
Lengths(cols) == { Len(cols[i].q) : i \in DOMAIN cols }

\* self._columns[k].append(v): a missing key is created with an empty deque.
columns_append(cols, k, v) ==
    IF k \in Keys(cols)
    THEN [i \in DOMAIN cols |->
             IF cols[i].k = k THEN [cols[i] EXCEPT !.q = Append(@, v)] ELSE cols[i]]
    ELSE Append(cols, [k |-> k, q |-> << v >>])

\* {k: v.popleft() for k, v in self._columns.items()}: the deques are popped in
\* insertion order, and the first empty one raises IndexError after the ones
\* before it were popped.
popleft_all(cols) ==
    LET empty == { i \in DOMAIN cols : cols[i].q = << >> }
        stop == IF empty = {} THEN Len(cols) + 1 ELSE Min(empty)
    IN  [ raised |-> IF empty = {} THEN "none" ELSE "IndexError",
          columns |-> [i \in DOMAIN cols |->
                          IF i < stop THEN [cols[i] EXCEPT !.q = Tail(@)] ELSE cols[i]],
          record |-> IF empty = {}
                     THEN [k \in Keys(cols) |-> Head(Queue(cols, k))]
                     ELSE << >> ]

\* ------------------------------------------------------------- export_data
columns_consistent_mut_unchecked(cols) == TRUE

\* len(set(len(q) for q in self._columns.values())) == 1
columns_consistent(cols) == Cardinality(Lengths(cols)) = 1

\* int(timestamp), the timestamp in tenths of a second.
int(timestamp) == timestamp \div 10

Row(m, record, d) ==
    [ model_id |-> m.model_id, model_type |-> m.model_type,
      environment |-> m.environment, model_version |-> m.model_version,
      prediction_id |-> record[COLUMN_RID],
      prediction_timestamp |-> int(record[COLUMN_TIME]),
      batch_id |-> None,
      prediction_label |-> d.prediction_label, actual_label |-> d.actual_label,
      features |-> d.features, embedding_features |-> d.embedding_features ]

Drained(r, cols, rows) == [raised |-> r, columns |-> cols, rows |-> rows]

\* self._client.log raising inside the loop with cols left after the popleft:
\* nothing catches the exception, so it leaves export_data with the queues as
\* they are and the rows forwarded so far.
client_log_raised_mut_discard(cols, rows) ==
    Drained("SinkError", [i \in DOMAIN cols |-> [cols[i] EXCEPT !.q = << >>]], rows)

client_log_raised(cols, rows) == Drained("SinkError", cols, rows)

\* The `while True` loop: m is the monitor's [model_id, model_type, environment,
\* model_version, data_converter]; the fail_at-th self._client.log call raises
\* (0: none does). Only IndexError ends the loop quietly.
RECURSIVE drain(_, _, _, _)
drain(cols, rows, m, fail_at) ==
    LET p == popleft_all(cols)
        d == map_data(p.record, m.data_converter.fields, m.data_converter.mapping)
    IN  IF p.raised = "IndexError" THEN Drained("none", p.columns, rows)
        ELSE IF COLUMN_TIME \notin DOMAIN p.record \/ COLUMN_RID \notin DOMAIN p.record
        THEN Drained("KeyError", p.columns, rows)
        ELSE IF d.raised = "IndexError" THEN Drained("none", p.columns, rows)
        ELSE IF d.raised # "none" THEN Drained(d.raised, p.columns, rows)
        ELSE IF Len(rows) + 1 = fail_at THEN client_log_raised(p.columns, rows)
        ELSE drain(p.columns, Append(rows, Row(m, p.record, d)), m, fail_at)

export_data(cols, m, fail_at) ==
    IF ~ columns_consistent(cols) THEN Drained("AssertionError:columns_length", cols, << >>)
    ELSE IF m.model_id = None THEN Drained("AssertionError:model_id", cols, << >>)
    ELSE IF m.model_type = None THEN Drained("AssertionError:model_type", cols, << >>)
    ELSE IF m.environment = None THEN Drained("AssertionError:environment", cols, << >>)
    ELSE drain(cols, << >>, m, fail_at)

\* ----------------------------------------------------------- export_schema
Converter(fields, mapping) == [fields |-> fields, mapping |-> mapping]

\* component_context.bento_name / bento_version of the running service.
bento_name == "bento"
bento_version == "bv1"

\* export_schema on monitor m = [schema, model_type, model_id, model_version,
\* environment, data_converter, client]: returns m updated, with raised and
\* warned. Nothing is assigned when _infer_mapping raises.
export_schema(m) ==
    LET fields == stat_fields(m.schema)
        w == stat_fields_warnings(m.schema)
        inf == infer_mapping(fields, m.model_type)
        resolve == m.model_version = None /\ m.model_id = None
    IN  IF inf.raised # "none"
        THEN [ m EXCEPT !.raised = inf.raised, !.warned = w ]
        ELSE [ m EXCEPT
                 !.raised = "none",
                 !.warned = w \o inf.warned,
                 !.data_converter = Converter(fields, inf.mapping),
                 !.model_type = IF @ = None THEN mapping_to_model_type(inf.mapping) ELSE @,
                 !.model_id = IF resolve THEN bento_name ELSE @,
                 !.model_version = IF resolve THEN bento_version ELSE @,
                 !.environment = IF @ = None THEN PRODUCTION ELSE @,
                 !.client = TRUE ]

\* ------------------------------------------------------------ ArizeMonitor
\* The monitor as one record m: the instance attributes, n_log (the number of
\* log calls that passed validation, which is also the value the next one
\* stores) and what the last call did: raised, warned, forwarded.
Monitor ==
    [ model_type |-> model_type, model_id |-> model_id,
      model_version |-> model_version, environment |-> environment,
      is_first_record |-> is_first_record, is_first_column |-> is_first_column,
      schema |-> schema, columns |-> columns,
      data_converter |-> data_converter, client |-> client,
      n_log |-> n_log,
      raised |-> "none", warned |-> << >>, forwarded |-> << >> ]

start_record(m) == [m EXCEPT !.is_first_column = TRUE]

is_preserved_mut_time_only(name) == name = COLUMN_TIME

is_preserved(name) == name \in PRESERVED_COLUMNS

log(m, data, name, role, data_type, now, request_id) ==
    IF is_preserved(name) THEN [m EXCEPT !.raised = "ValueError:preserved"]
    ELSE IF role \notin BENTOML_MONITOR_ROLES THEN [m EXCEPT !.raised = "AssertionError:role"]
    ELSE IF data_type \notin BENTOML_MONITOR_TYPES
    THEN [m EXCEPT !.raised = "AssertionError:data_type"]
    ELSE
    LET m1 == [m EXCEPT
                 !.n_log = @ + 1,
                 !.schema = IF m.is_first_record
                            THEN Append(@, Col(name, role, data_type)) ELSE @]
    IN  IF m1.is_first_column
        THEN LET m2 == [m1 EXCEPT !.is_first_column = FALSE,
                                  !.columns = columns_append(@, COLUMN_TIME, now)]
             IN  IF request_id = NoRequestId
                 THEN [m2 EXCEPT !.raised = "AssertionError:request_id"]
                 ELSE [m2 EXCEPT !.columns =
                          columns_append(columns_append(@, COLUMN_RID, request_id),
                                         name, data)]
        ELSE [m1 EXCEPT !.columns = columns_append(@, name, data)]

\* log_batch: data_batch is [iterable, items]; iterating a value that is not
\* iterable raises TypeError, which log_batch turns into ValueError. The i-th
\* element is logged unless an earlier one raised.
RECURSIVE log_batch_loop(_, _, _, _, _, _, _)
log_batch_loop(m, data_batch, name, role, data_type, now, request_id) ==
    IF data_batch = << >> THEN m
    ELSE LET m1 == log(m, Head(data_batch), name, role, data_type, now, request_id)
         IN  IF m1.raised # "none" THEN m1
             ELSE log_batch_loop(m1, Tail(data_batch), name, role, data_type,
                                 now, request_id)

log_batch(m, data_batch, name, role, data_type, now, request_id) ==
    IF ~ data_batch.iterable THEN [m EXCEPT !.raised = "ValueError:not_iterable"]
    ELSE log_batch_loop(m, data_batch.items, name, role, data_type, now, request_id)

log_table(m) == [m EXCEPT !.raised = "NotImplementedError"]

stop_record(m, fail_at) ==
    LET m1 == IF m.is_first_record THEN export_schema(m) ELSE m
    IN  IF m1.raised # "none" THEN m1
        ELSE
        LET m2 == [m1 EXCEPT !.is_first_record = FALSE]
        IN  IF m2.is_first_column
            THEN [m2 EXCEPT !.warned = Append(@, Warn("no_data", << >>))]
            ELSE LET e == export_data(m2.columns, m2, fail_at)
                 IN  [m2 EXCEPT !.columns = e.columns, !.raised = e.raised,
                                !.forwarded = e.rows]

\* ----------------------------------------------------------------- actions
Assign(m) ==
    /\ model_type' = m.model_type
    /\ model_id' = m.model_id
    /\ model_version' = m.model_version
    /\ environment' = m.environment
    /\ is_first_record' = m.is_first_record
    /\ is_first_column' = m.is_first_column
    /\ schema' = m.schema
    /\ columns' = m.columns
    /\ data_converter' = m.data_converter
    /\ client' = m.client
    /\ n_log' = m.n_log
    /\ raised' = m.raised
    /\ warned' = m.warned
    /\ forwarded' = m.forwarded

\* The sink call that raises during one drain (0: none).
SinkFailures == 0 .. 2
\* The data_batch arguments: not iterable, or 0..MaxBatch fresh values.
Batches ==
    { [iterable |-> FALSE, items |-> << >>] } \cup
    { [iterable |-> TRUE, items |-> [i \in 1 .. k |-> n_log + i]] : k \in 0 .. MaxBatch }

\* Bookkeeping of the calls made, not state of the monitor: closed says that
\* a stop_record has closed a record a start_record opened; record_state is
\* "open" from a start_record
\* until a log call of that record stores its value, "logged" from then on,
\* and "idle" before the first start_record and after each stop_record.
Logged ==
    IF record_state = "open" /\ raised' = "none" /\ n_log' > n_log
    THEN "logged" ELSE record_state

Init ==
    /\ model_type \in ModelTypeArgs
    /\ \E a \in ModelArgs : model_id = a[1] /\ model_version = a[2]
    /\ environment = None
    /\ is_first_record = TRUE
    /\ is_first_column = FALSE
    /\ schema = << >>
    /\ columns = << >>
    /\ data_converter = Converter(FieldStats, Unset)
    /\ client = FALSE
    /\ n_log = 0
    /\ closed = FALSE
    /\ record_state = "idle"
    /\ op = "init"
    /\ raised = "none"
    /\ warned = << >>
    /\ forwarded = << >>

StartRecord ==
    /\ Assign(start_record(Monitor))
    /\ op' = "start_record"
    /\ record_state' = "open"
    /\ UNCHANGED closed

Log ==
    \E c \in LogCalls, request_id \in RequestIds(n_log + 1) :
        /\ n_log < MaxLogs
        /\ Assign(log(Monitor, n_log + 1, c.name, c.role, c.type,
                      clock(n_log + 1), request_id))
        /\ op' = "log"
        /\ record_state' = Logged
        /\ UNCHANGED closed

LogBatch ==
    \E c \in BatchCalls, data_batch \in Batches, request_id \in RequestIds(n_log + 1) :
        /\ n_log + Len(data_batch.items) <= MaxLogs
        /\ Assign(log_batch(Monitor, data_batch, c.name, c.role, c.type,
                            clock(n_log + 1), request_id))
        /\ op' = "log_batch"
        /\ record_state' = Logged
        /\ UNCHANGED closed

LogTable ==
    /\ Assign(log_table(Monitor))
    /\ op' = "log_table"
    /\ UNCHANGED << closed, record_state >>

StopRecord ==
    \E fail_at \in SinkFailures :
        /\ Assign(stop_record(Monitor, fail_at))
        /\ op' = "stop_record"
        /\ closed' = (closed \/ record_state # "idle")
        /\ record_state' = "idle"

Next == StartRecord \/ Log \/ LogBatch \/ LogTable \/ StopRecord

Spec == Init /\ [][Next]_vars

\* ------------------------------------------------------------------ claims
StopStep == op' = "stop_record"
LogStep == op' \in {"log", "log_batch"}
QueueLen(cols, k) == IF k \in Keys(cols) THEN Len(Queue(cols, k)) ELSE 0
Unequal(cols) == \E i, j \in DOMAIN cols : Len(cols[i].q) # Len(cols[j].q)

\* The monitor's first record holds one stored value under each of
\* k >= 1 distinct user columns and under both reserved columns, and nothing
\* else: start_record, then k log calls of distinct names, no stop_record yet.
RoundTripReady ==
    /\ ~ closed
    /\ record_state = "logged"
    /\ PRESERVED_COLUMNS \subseteq Keys(columns)
    /\ Len(columns) >= 3
    /\ n_log = Len(columns) - 2
    /\ Lengths(columns) = {1}

\* C1: after start_record, one log call per distinct user column and a
\* stop_record that infers a mapping and returns, exactly one row has been
\* forwarded to the sink and every queue is one element shorter.
C1_RoundTrip ==
    [][ (StopStep /\ RoundTripReady /\ raised' = "none"
            /\ data_converter'.mapping # Unset)
        => /\ Len(forwarded') = 1
           /\ Len(columns') = Len(columns)
           /\ \A i \in DOMAIN columns : Len(columns'[i].q) = Len(columns[i].q) - 1
      ]_vars

\* export_data is entered by this stop_record: the schema step, if it ran, did
\* not raise (stop_record then clears is_first_record), and a value was logged.
ExportStarts == ~ is_first_column /\ ~ is_first_record'

\* C2: when export starts on queues of unequal length it fails with the
\* consistency assertion before popping anything: no row is forwarded and
\* every queue keeps its content.
C2_InconsistentBuffersRejected ==
    [][ (StopStep /\ ExportStarts /\ Unequal(columns))
        => /\ raised' = "AssertionError:columns_length"
           /\ forwarded' = << >>
           /\ columns' = columns
      ]_vars

C2_Witness ==
    /\ op = "stop_record"
    /\ raised = "AssertionError:columns_length"
    /\ Unequal(columns)
    /\ \E i \in DOMAIN columns : Len(columns[i].q) >= 2

\* C3: a stop_record that directly follows a start_record, in the first
\* record or a later one, skips the export: it returns, warns that no data
\* was logged, forwards no row and leaves the queues alone.
C3_EmptyRecordSkipped ==
    [][ (op = "start_record" /\ StopStep)
        => /\ raised' = "none"
           /\ \E i \in DOMAIN warned' : warned'[i].kind = "no_data"
           /\ forwarded' = << >>
           /\ columns' = columns
      ]_vars

\* C4: the first-record step (export_schema) runs at the stop_record that
\* closes the first record and at no later one, and a mapping, once computed,
\* never changes.
C4_SchemaStepOnce ==
    [][ /\ (StopStep /\ is_first_record) => ~ closed
        /\ data_converter.mapping # Unset => data_converter' = data_converter
      ]_vars

\* C5: once stop_record has closed the first record, no call changes the
\* schema.
C5_SchemaFrozen == [][ closed => schema' = schema ]_vars

\* C6: the schema holds at most one entry per column name.
C6_SchemaNamesDistinct ==
    \A i, j \in DOMAIN schema : schema[i].name = schema[j].name => i = j

\* What a log call that is rejected for its name, role or type raises.
Rejections == {"ValueError:preserved", "AssertionError:role", "AssertionError:data_type"}
IsUserValue(v) == v < 100
ReservedQueuesClean(cols) ==
    \A i \in DOMAIN cols :
        cols[i].k \in PRESERVED_COLUMNS
            => \A n \in DOMAIN cols[i].q : ~ IsUserValue(cols[i].q[n])

\* C7: a log call rejected for a reserved name or an invalid role or type
\* leaves the schema, every queue and the first-value flag unchanged, and no
\* logged value is ever stored in the queue of a reserved column.
C7_RejectedLogChangesNothing ==
    [][ /\ (LogStep /\ raised' \in Rejections)
            => /\ schema' = schema
               /\ columns' = columns
               /\ is_first_column' = is_first_column
               /\ n_log' = n_log
        /\ ReservedQueuesClean(columns')
      ]_vars

C7_Witness ==
    /\ op \in {"log", "log_batch"}
    /\ raised = "ValueError:preserved"
    /\ is_first_column
    /\ schema # << >>
    /\ columns # << >>

\* C8: in an open record the first log call that succeeds appends exactly one
\* value to the timestamp queue and one to the request_id queue, and every
\* further log call of the record appends nothing to them.
C8_StampedOncePerRecord ==
    [][ /\ (LogStep /\ record_state = "open" /\ record_state' = "logged")
            => /\ QueueLen(columns', COLUMN_TIME) = QueueLen(columns, COLUMN_TIME) + 1
               /\ QueueLen(columns', COLUMN_RID) = QueueLen(columns, COLUMN_RID) + 1
        /\ (LogStep /\ record_state = "logged")
            => /\ QueueLen(columns', COLUMN_TIME) = QueueLen(columns, COLUMN_TIME)
               /\ QueueLen(columns', COLUMN_RID) = QueueLen(columns, COLUMN_RID)
      ]_vars

\* The validity predicates of the mapping shapes: either side suffices.
ValidScored(f) ==
    \/ f.prediction_label_columns # << >> /\ f.prediction_score_columns # << >>
    \/ f.actual_label_columns # << >> /\ f.actual_score_columns # << >>
ValidClassification(f) ==
    \/ f.prediction_label_columns # << >> /\ f.prediction_score_columns = << >>
    \/ f.actual_label_columns # << >> /\ f.actual_score_columns = << >>
ValidRegression(f) ==
    \/ f.prediction_score_columns # << >> /\ f.prediction_label_columns = << >>
    \/ f.actual_score_columns # << >> /\ f.actual_label_columns = << >>
SchemaErrors ==
    {"ValueError:no_valid_mapping", "ValueError:not_classification",
     "ValueError:not_regression"}

\* C9: without a hint, inference on the schema's buckets yields
\* ScoredClassification, else Classification, else Regression, by the first
\* validity predicate that holds, and fails with the schema error if none does.
C9_InferWithoutHint ==
    [][ (StopStep /\ is_first_record /\ model_type = None)
        => LET f == stat_fields(schema)
           IN  IF ValidScored(f)
               THEN raised' # "ValueError:no_valid_mapping"
                    /\ data_converter'.mapping = SCORED_CLASSIFICATION
               ELSE IF ValidClassification(f)
               THEN data_converter'.mapping = CLASSIFICATION
               ELSE IF ValidRegression(f)
               THEN data_converter'.mapping = REGRESSION
               ELSE raised' = "ValueError:no_valid_mapping"
      ]_vars

\* The schema fits no mapping shape the hint allows.
NoShapeFits(f, hint) ==
    \/ hint = None /\ ~ ValidScored(f) /\ ~ ValidClassification(f) /\ ~ ValidRegression(f)
    \/ hint = SCORE_CATEGORICAL /\ ~ ValidScored(f) /\ ~ ValidClassification(f)
    \/ hint = NUMERIC /\ ~ ValidRegression(f)

\* C10: if the columns of the first record fit no mapping shape, the first
\* stop_record raises the schema error and forwards no row.
C10_SchemaErrorAtFirstClose ==
    [][ (StopStep /\ ~ closed /\ record_state # "idle" /\ schema # << >>
            /\ NoShapeFits(stat_fields(schema), model_type))
        => raised' \in SchemaErrors /\ forwarded' = << >>
      ]_vars

\* ============================================================ SpecSchema
\* export_schema applied to the schema of a first record: the monitor after
\* start_record and one log call for each column of an ordered selection of
\* at most MaxSchemaCols distinct columns, one per (role, type) pair and a
\* second prediction label.
MaxSchemaCols == 4

SchemaCalls ==
    { Col("age", "feature", "numerical"),
      Col("city", "feature", "categorical"),
      Col("emb", "feature", "numerical_sequence"),
      Col("pred_label", "prediction", "categorical"),
      Col("pred_label2", "prediction", "categorical"),
      Col("pred_score", "prediction", "numerical"),
      Col("pred_seq", "prediction", "numerical_sequence"),
      Col("label", "target", "categorical"),
      Col("score", "target", "numerical"),
      Col("target_seq", "target", "numerical_sequence") }

\* The sequences of at most k distinct elements of S.
RECURSIVE Selections(_, _)
Selections(S, k) ==
    IF k = 0 THEN { << >> }
    ELSE LET shorter == Selections(S, k - 1)
         IN  shorter \cup
             UNION { { Append(p, c) : c \in S \ Range(p) } :
                       p \in { q \in shorter : Len(q) = k - 1 } }

\* The monitor __init__ leaves, as a record like Monitor.
init_monitor(mtype, mid, mversion) ==
    [ model_type |-> mtype, model_id |-> mid,
      model_version |-> mversion, environment |-> None,
      is_first_record |-> TRUE, is_first_column |-> FALSE,
      schema |-> << >>, columns |-> << >>,
      data_converter |-> Converter(FieldStats, Unset), client |-> FALSE,
      n_log |-> 0,
      raised |-> "none", warned |-> << >>, forwarded |-> << >> ]

\* One log call per element of calls, each inside a request.
RECURSIVE log_all(_, _)
log_all(m, calls) ==
    IF calls = << >> THEN m
    ELSE LET c == Head(calls)
             n == m.n_log + 1
         IN  log_all(log(m, n, c.name, c.role, c.type, clock(n), 100 + n),
                     Tail(calls))

\* The variables hold monitor m.
Holds(m) ==
    /\ model_type = m.model_type
    /\ model_id = m.model_id
    /\ model_version = m.model_version
    /\ environment = m.environment
    /\ is_first_record = m.is_first_record
    /\ is_first_column = m.is_first_column
    /\ schema = m.schema
    /\ columns = m.columns
    /\ data_converter = m.data_converter
    /\ client = m.client
    /\ n_log = m.n_log
    /\ raised = m.raised
    /\ warned = m.warned
    /\ forwarded = m.forwarded

InitSchema ==
    \E mtype \in ModelTypeArgs, calls \in Selections(SchemaCalls, MaxSchemaCols) :
        /\ Holds(log_all(start_record(init_monitor(mtype, None, None)), calls))
        /\ closed = FALSE
        /\ record_state = IF calls = << >> THEN "open" ELSE "logged"
        /\ op = IF calls = << >> THEN "start_record" ELSE "log"

\* A direct call of the public method export_schema.
ExportSchema ==
    /\ Assign(export_schema(Monitor))
    /\ op' = "export_schema"
    /\ UNCHANGED << closed, record_state >>

NextSchema == ExportSchema

SpecSchema == InitSchema /\ [][NextSchema]_vars

\* C11: with a hint, inference follows the hint's table: a classification
\* hint gives ScoredClassification, else Classification, else the schema
\* error; a numeric hint gives Regression exactly when the regression
\* predicate holds and the schema error otherwise; an unsupported hint gives
\* Regression and never fails.
C11_InferWithHint ==
    [][ (op' = "export_schema" /\ model_type # None)
        => LET f == stat_fields(schema)
           IN  IF model_type = SCORE_CATEGORICAL
               THEN IF ValidScored(f)
                    THEN raised' = "none"
                         /\ data_converter'.mapping = SCORED_CLASSIFICATION
                    ELSE IF ValidClassification(f)
                    THEN raised' = "none" /\ data_converter'.mapping = CLASSIFICATION
                    ELSE raised' = "ValueError:not_classification"
               ELSE IF model_type = NUMERIC
               THEN IF ValidRegression(f)
                    THEN raised' = "none" /\ data_converter'.mapping = REGRESSION
                    ELSE raised' = "ValueError:not_regression"
               ELSE raised' = "none" /\ data_converter'.mapping = REGRESSION
      ]_vars

\* ============================================================ SpecRecord
\* stop_record applied to one record: the monitor after start_record and one
\* log call for each column of an ordered selection of at most MaxRecordCols
\* distinct columns, so that both sides of every mapping can be present.
MaxRecordCols == 5

RecordCalls ==
    { Col("age", "feature", "numerical"),
      Col("emb", "feature", "numerical_sequence"),
      Col("pred_label", "prediction", "categorical"),
      Col("pred_label2", "prediction", "categorical"),
      Col("pred_score", "prediction", "numerical"),
      Col("label", "target", "categorical"),
      Col("score", "target", "numerical") }

InitRecord ==
    \E mtype \in ModelTypeArgs, a \in ModelArgs,
       calls \in Selections(RecordCalls, MaxRecordCols) :
        /\ Holds(log_all(start_record(init_monitor(mtype, a[1], a[2])), calls))
        /\ closed = FALSE
        /\ record_state = IF calls = << >> THEN "open" ELSE "logged"
        /\ op = IF calls = << >> THEN "start_record" ELSE "log"

NextRecord == StopRecord

SpecRecord == InitRecord /\ [][NextRecord]_vars

\* The declared columns of a role and one of the given types, in order.
Declared(sch, role, types) ==
    SelectSeq(sch, LAMBDA c : c.role = role /\ c.type \in types)

\* The value the i-th buffered record holds for the first declared column of
\* a role and type.
FirstValue(cols, sch, role, type, i) ==
    Queue(cols, Declared(sch, role, {type})[1].name)[i]

\* The feature map of the i-th buffered record.
FeatureMap(cols, sch, i) ==
    LET fs == Declared(sch, "feature", {"numerical", "categorical"})
    IN  [c \in { fs[j].name : j \in DOMAIN fs } |-> Queue(cols, c)[i]]

\* C12: a row exported under Classification carries the values of the first
\* prediction label column and of the first target label column; under
\* ScoredClassification each label is the pair (label value, score value) of
\* its own side; in both, features maps exactly the feature columns to their
\* logged values.
C12_ClassificationRowContent ==
    [][ (StopStep /\ data_converter'.mapping \in {CLASSIFICATION, SCORED_CLASSIFICATION})
        => \A i \in DOMAIN forwarded' :
             LET row == forwarded'[i]
                 v(role, type) == FirstValue(columns, schema', role, type, i)
             IN  /\ row.features = FeatureMap(columns, schema', i)
                 /\ IF data_converter'.mapping = CLASSIFICATION
                    THEN /\ row.prediction_label = v("prediction", "categorical")
                         /\ row.actual_label = v("target", "categorical")
                    ELSE /\ row.prediction_label =
                              << v("prediction", "categorical"),
                                 v("prediction", "numerical") >>
                         /\ row.actual_label =
                              << v("target", "categorical"), v("target", "numerical") >>
      ]_vars

C12_Witness ==
    /\ op = "stop_record"
    /\ data_converter.mapping = SCORED_CLASSIFICATION
    /\ Len(forwarded) = 1
    /\ forwarded[1].prediction_label[1] # forwarded[1].actual_label[1]
    /\ forwarded[1].prediction_label[2] # forwarded[1].actual_label[2]
    /\ DOMAIN forwarded[1].features # {}

\* ============================================================= SpecDrain
\* stop_record applied to buffers that hold more than one row: a first record
\* of one column c1 was closed, which leaves its values buffered when the
\* schema step raised; the second record logs c1 again and each of at most
\* MaxExtra further columns twice, so that all queues can hold two values.
MaxExtra == 2

\* The monitor as the next call finds it.
next_call(m) == [m EXCEPT !.raised = "none", !.warned = << >>, !.forwarded = << >>]

RECURSIVE Twice(_)
Twice(s) == IF s = << >> THEN << >> ELSE << Head(s), Head(s) >> \o Twice(Tail(s))

InitDrain ==
    \E mtype \in ModelTypeArgs, a \in ModelArgs, c1 \in RecordCalls :
      \E extras \in Selections(RecordCalls \ {c1}, MaxExtra) :
        LET first  == log_all(start_record(init_monitor(mtype, a[1], a[2])), << c1 >>)
            closed1 == stop_record(next_call(first), 0)
            second == log_all(start_record(next_call(closed1)), << c1 >> \o Twice(extras))
        IN  /\ Holds(second)
            /\ closed = TRUE
            /\ record_state = "logged"
            /\ op = "log"

NextDrain == StopRecord

SpecDrain == InitDrain /\ [][NextDrain]_vars

\* Queue k of cols without its first n values.
Dropped(cols, n) ==
    [i \in DOMAIN cols |->
        [cols[i] EXCEPT !.q = SubSeq(@, n + 1, Len(@))]]

Names(sch, role, types) ==
    LET d == Declared(sch, role, types) IN [j \in DOMAIN d |-> d[j].name]

\* The buckets the routing table gives a schema.
Routed(sch) ==
    [ prediction_label_columns |-> Names(sch, "prediction", {"categorical"}),
      prediction_score_columns |-> Names(sch, "prediction", {"numerical"}),
      actual_label_columns |-> Names(sch, "target", {"categorical"}),
      actual_score_columns |-> Names(sch, "target", {"numerical"}),
      feature_columns |-> Names(sch, "feature", {"numerical", "categorical"}),
      embedding_feature_columns |-> Names(sch, "feature", {"numerical_sequence"}) ]

\* C14: the buckets export_schema stores are the routing table's: every column
\* is in the bucket of its (role, type), sequence-typed prediction and target
\* columns are in none, each bucket is in declaration order; and a second
\* call on the same schema stores the same buckets.
C14_ClassifyRoutes ==
    [][ (op' = "export_schema" /\ raised' = "none")
        => /\ data_converter'.fields = Routed(schema)
           /\ (op = "export_schema" /\ raised = "none"
               => data_converter'.fields = data_converter.fields)
      ]_vars

C14_Witness ==
    /\ op = "export_schema"
    /\ raised = "none"
    /\ Len(data_converter.fields.feature_columns) = 2
    /\ Len(data_converter.fields.embedding_feature_columns) = 1
    /\ Len(schema) = 4
    /\ \E j \in DOMAIN schema :
         schema[j].role = "prediction" /\ schema[j].type = "numerical_sequence"

\* C15: when the schema satisfies the validity predicate of a mapping (on
\* either side) and stop_record runs the export and returns without raising,
\* every record it popped from the buffers was forwarded: each queue lost as
\* many values as rows reached the sink.
C15_NoPoppedRecordLost ==
    [][ (StopStep /\ ExportStarts /\ raised' = "none"
         /\ LET f == stat_fields(schema')
            IN  ValidScored(f) \/ ValidClassification(f) \/ ValidRegression(f))
        => \A i \in DOMAIN columns :
             Len(columns[i].q) - Len(columns'[i].q) = Len(forwarded')
      ]_vars

\* C16: when stop_record runs the export on queues of one common length
\* n >= 1 that include the two reserved ones, and the sink accepts every row,
\* it forwards n rows, the i-th with the i-th request id, the whole seconds of
\* the i-th timestamp and the i-th value of every feature column.
C16_FifoDrain ==
    [][ (StopStep /\ ExportStarts /\ raised' # "SinkError"
         /\ {COLUMN_TIME, COLUMN_RID} \subseteq Keys(columns)
         /\ \E n \in 1 .. MaxLogs + 2 * MaxExtra + 2 : Lengths(columns) = {n})
        => /\ Len(forwarded') = Len(Queue(columns, COLUMN_RID))
           /\ \A i \in DOMAIN forwarded' :
                /\ forwarded'[i].prediction_id = Queue(columns, COLUMN_RID)[i]
                /\ forwarded'[i].prediction_timestamp =
                       Queue(columns, COLUMN_TIME)[i] \div 10
                /\ forwarded'[i].features = FeatureMap(columns, schema', i)
      ]_vars

\* The value the i-th buffered record holds for the first score column of a
\* role, or for its first label column when it has no score column.
ScoreElseLabel(cols, sch, role, i) ==
    IF Declared(sch, role, {"numerical"}) # << >>
    THEN FirstValue(cols, sch, role, "numerical", i)
    ELSE FirstValue(cols, sch, role, "categorical", i)

\* C17: a row exported under Regression carries as prediction_label the value
\* of the first prediction score column, or of the first prediction label
\* column when there is no score column, and as actual_label the value chosen
\* the same way among the target columns.
C17_RegressionRowContent ==
    [][ (StopStep /\ data_converter'.mapping = REGRESSION)
        => \A i \in DOMAIN forwarded' :
             /\ forwarded'[i].prediction_label =
                    ScoreElseLabel(columns, schema', "prediction", i)
             /\ forwarded'[i].actual_label =
                    ScoreElseLabel(columns, schema', "target", i)
      ]_vars

C17_Witness ==
    /\ op = "stop_record"
    /\ data_converter.mapping = REGRESSION
    /\ Len(forwarded) = 1
    /\ Declared(schema, "prediction", {"numerical"}) = << >>
    /\ Declared(schema, "target", {"numerical"}) # << >>
    /\ Declared(schema, "target", {"categorical"}) # << >>

\* The buckets whose first column the rows of a mapping are built from.
UsedBuckets(mapping, f) ==
    IF mapping = SCORED_CLASSIFICATION
    THEN { "prediction_label_columns", "prediction_score_columns",
           "actual_label_columns", "actual_score_columns" }
    ELSE IF mapping = CLASSIFICATION
    THEN { "prediction_label_columns", "actual_label_columns" }
    ELSE { IF f.prediction_score_columns # << >>
           THEN "prediction_score_columns" ELSE "prediction_label_columns",
           IF f.actual_score_columns # << >>
           THEN "actual_score_columns" ELSE "actual_label_columns" }

\* C18: when the schema step of stop_record chooses a mapping, every column
\* after the first in a bucket the mapping uses is named by a warning of that
\* call, on both sides and with or without a hint.
C18_ExtraColumnsWarned ==
    [][ (StopStep /\ is_first_record /\ ~ is_first_record')
        => LET f == data_converter'.fields
           IN  \A b \in UsedBuckets(data_converter'.mapping, f) :
                 \A j \in 2 .. Len(f[b]) :
                   \E w \in DOMAIN warned' :
                     /\ warned'[w].kind \notin {"unsupported_column", "unsupported_model_type"}
                     /\ f[b][j] \in Range(warned'[w].cols)
      ]_vars

\* C19: after a stop_record that returns without raising, every buffer queue
\* is empty.
C19_BuffersEmptyAfterStop ==
    [][ (StopStep /\ raised' = "none")
        => \A i \in DOMAIN columns' : columns'[i].q = << >>
      ]_vars

\* The buffers hold one record that started from empty buffers and in which a
\* column was logged more than once: one timestamp, no user value older than
\* it, and a user queue of two values or more.
RepeatedInRecord(cols) ==
    /\ COLUMN_TIME \in Keys(cols)
    /\ Len(Queue(cols, COLUMN_TIME)) = 1
    /\ \A i \in DOMAIN cols :
         cols[i].k \notin PRESERVED_COLUMNS
         => \A j \in DOMAIN cols[i].q :
              clock(cols[i].q[j]) >= Queue(cols, COLUMN_TIME)[1]
    /\ \E i \in DOMAIN cols :
         cols[i].k \notin PRESERVED_COLUMNS /\ Len(cols[i].q) >= 2

\* C20: when a record that started from empty buffers logged a column more
\* than once (by log or log_batch), its stop_record raises, forwards no row
\* and leaves the buffers as they are; whenever the export starts, what it
\* raises is the failure of the equal-length check.
C20_RepeatedColumnFailsExport ==
    [][ (StopStep /\ record_state = "logged" /\ RepeatedInRecord(columns))
        => /\ forwarded' = << >>
           /\ raised' # "none"
           /\ columns' = columns
           /\ (ExportStarts => raised' = "AssertionError:columns_length")
      ]_vars

C20_Witness ==
    /\ op = "stop_record"
    /\ raised = "AssertionError:columns_length"
    /\ RepeatedInRecord(columns)
    /\ COLUMN_RID \in Keys(columns)
    /\ Len(Queue(columns, COLUMN_RID)) = 1

====
